---- MODULE Spec2Model ----
(***************************************************************************)
(* A model of scripts/verify.py, the validator of fixed-format FORTRAN     *)
(* source text.  The text of the file is a sequence of characters, each a  *)
(* one-character string; "U+00B2" (SUPERSCRIPT TWO) and "U+FF11"           *)
(* (FULLWIDTH DIGIT ONE) stand for those two non-ASCII characters.         *)
(***************************************************************************)
EXTENDS Integers, Sequences, FiniteSets, TLC

VARIABLES fp, text, statements, ln, issues, labels, sequencing, pc, output

vars == <<fp, text, statements, ln, issues, labels, sequencing, pc, output>>

(***************************************************************************)
(* Python's str and int operations, as far as verify.py uses them.         *)
(***************************************************************************)

Range(s) == {s[i] : i \in DOMAIN s}

Min(a, b) == IF a < b THEN a ELSE b

\* str.isspace() of one character: what str.strip() removes.
PyWhitespace == {" ", "\t", "\n", "\r", "\f"}

AsciiDigits == {"0", "1", "2", "3", "4", "5", "6", "7", "8", "9"}

\* The characters str.isdigit() accepts: Numeric_Type Digit or Decimal.
PyDigit == AsciiDigits \cup {"U+00B2", "U+FF11"}

\* The characters int() accepts as digits: Numeric_Type Decimal only.
PyDecimal == AsciiDigits \cup {"U+FF11"}

DigitValue(c) ==
    CASE c = "0" -> 0 [] c = "1" -> 1 [] c = "2" -> 2 [] c = "3" -> 3
      [] c = "4" -> 4 [] c = "5" -> 5 [] c = "6" -> 6 [] c = "7" -> 7
      [] c = "8" -> 8 [] c = "9" -> 9 [] c = "U+FF11" -> 1

\* s.strip(): leading and trailing whitespace removed.
Strip(s) ==
    LET keep == {i \in DOMAIN s : s[i] \notin PyWhitespace}
    IN  IF keep = {} THEN <<>>
        ELSE SubSeq(s, CHOOSE i \in keep : \A j \in keep : i <= j,
                       CHOOSE i \in keep : \A j \in keep : j <= i)

\* s.isdigit(): at least one character, and every character a digit.
IsDigit(s) == s # <<>> /\ \A i \in DOMAIN s : s[i] \in PyDigit

\* s.startswith(prefix) for a one-character prefix.
StartsWith(s, c) == Len(s) >= 1 /\ s[1] = c

\* s[a:b] for 0 <= a <= b: clipped to the length of s.
Slice(s, a, b) == SubSeq(s, a + 1, Min(b, Len(s)))

\* int(s) raises ValueError: after stripping, s is empty or holds a
\* character that is no decimal digit.
IntRaises(s) == Strip(s) = <<>> \/ \E i \in DOMAIN Strip(s) : Strip(s)[i] \notin PyDecimal

RECURSIVE DecimalValue(_)
DecimalValue(s) ==
    IF s = <<>> THEN 0
    ELSE DecimalValue(SubSeq(s, 1, Len(s) - 1)) * 10 + DigitValue(s[Len(s)])

\* int(s), where it does not raise.
PyInt(s) == DecimalValue(Strip(s))

\* s.split("\n"): the pieces between the separators, at least one piece.
RECURSIVE Split(_, _)
Split(s, sep) ==
    LET at == {i \in DOMAIN s : s[i] = sep}
    IN  IF at = {} THEN <<s>>
        ELSE LET i == CHOOSE k \in at : \A j \in at : k <= j
             IN  <<SubSeq(s, 1, i - 1)>> \o Split(SubSeq(s, i + 1, Len(s)), sep)

\* max(labels.keys())
MaxKey(table) == CHOOSE k \in DOMAIN table : \A j \in DOMAIN table : j <= k

\* The positions (1-based, ascending) of the characters of s outside `allowed':
\* the iterations of `for column, c in enumerate(s)' that find c not in allowed.
Offending(s, allowed) ==
    SelectSeq([i \in 1 .. Len(s) |-> i], LAMBDA i : s[i] \notin allowed)

(***************************************************************************)
(* The constants of verify.py.                                             *)
(***************************************************************************)

CHARSET ==
    << "1", "2", "3", "4", "5", "6", "7", "8", "9", " ", "=", "-",
       "A", "B", "C", "D", "E", "F", "G", "H", "I", "+", ".", ")",
       "J", "K", "L", "M", "N", "O", "P", "Q", "R", "-", "$", "*", "/",
       "S", "T", "U", "V", "W", "X", "Y", "Z", "0", ",", "(" >>

ColumnLimit == 80

LabelEnd == 5

ContinuationEnd == 6

ExpressionEnd == 72

SequenceEnd == 80

SequenceColumn == 73

NoSequence == -1

LabelChars == {" "} \cup AsciiDigits

ContinuationChars == {"*", "!", "2", "3", "4", "5", "6", "7", "8", "9"}

LabelColumns == <<1, 2, 3, 4, 5>>

SequenceColumns == <<73, 74, 75, 76, 77, 78, 79, 80>>

(***************************************************************************)
(* class Issue                                                             *)
(***************************************************************************)

\* A literal string of the details, and "...{}".format(n): the template with
\* the number it is filled with.
Plain(template) == <<template>>

Format(template, n) == <<template, n>>

Issue(f, l, cols, statement, details, dangerous, suggestions) ==
    [fp |-> f, ln |-> l, cols |-> cols, statement |-> statement,
     details |-> details, dangerous |-> dangerous, suggestions |-> suggestions]

(***************************************************************************)
(* The rules of the loop body, in the order the code applies them.         *)
(***************************************************************************)

\* IllegalCharacter with the lowercase letters let through.
IllegalCharacterUpper(c) == c \notin Range(CHARSET) \cup {"a", "b", "x"}

\* c not in CHARSET
IllegalCharacter(c) == c \notin Range(CHARSET)

CharsetIssues(f, l, statement) ==
    LET at == SelectSeq([i \in 1 .. Len(statement) |-> i],
                        LAMBDA i : IllegalCharacter(statement[i]))
    IN  [k \in 1 .. Len(at) |->
            Issue(f, l, <<at[k]>>, statement,
                  <<"statement contains", Plain("illegal character")>>, TRUE,
                  <<"try removing">>)]

\* len(statement.strip())
StrippedLength(statement) == Len(Strip(statement))

LengthIssues(f, l, statement) ==
    IF StrippedLength(statement) > ColumnLimit
    THEN << Issue(f, l,
                  [k \in 1 .. StrippedLength(statement) - ColumnLimit |-> ColumnLimit + k],
                  statement, <<"statement exceeds 80 column limit", Plain("")>>, FALSE,
                  <<"break statement across multiple lines using continuation field">>) >>
    ELSE <<>>

\* IsComment looking for a lowercase marker.
IsCommentLower(statement) == StartsWith(statement, "c")

IsComment(statement) == StartsWith(statement, "C")

LabelField(statement) == Slice(statement, 0, LabelEnd)

ContinuationField(statement) == Slice(statement, LabelEnd, ContinuationEnd)

ExpressionField(statement) == Slice(statement, ContinuationEnd, ExpressionEnd)

SequenceField(statement) == Slice(statement, ExpressionEnd, SequenceEnd)

LabelCharIssues(f, l, statement) ==
    LET at == Offending(LabelField(statement), LabelChars)
    IN  [k \in 1 .. Len(at) |->
            Issue(f, l, <<at[k]>>, statement,
                  <<"label field contains", Plain("illegal character")>>, TRUE,
                  <<"try removing">>)]

\* label.strip() and label.strip().isdigit()
LabelIsNumeric(label) == Strip(label) # <<>> /\ IsDigit(Strip(label))

\* int(label) in labels.keys()
IsDuplicate(L, table) == L \in DOMAIN table

\* The comparison of BadlyOrdered turned around.
BadlyOrderedAbove(L, table) == Cardinality(DOMAIN table) >= 1 /\ L > MaxKey(table)

\* len(labels.keys()) >= 1 and int(label) < max(labels.keys())
BadlyOrdered(L, table) == Cardinality(DOMAIN table) >= 1 /\ L < MaxKey(table)

LabelIssues(f, l, statement, table) ==
    LET L == PyInt(LabelField(statement))
    IN  IF IsDuplicate(L, table)
        THEN << Issue(f, l, LabelColumns, statement,
                      <<"duplicate label", Format("already defined on line {}", table[L])>>,
                      TRUE, <<"try relabelling">>) >>
        ELSE IF BadlyOrdered(L, table)
        THEN << Issue(f, l, LabelColumns, statement,
                      <<"badly ordered labels", Format("previous was {}", MaxKey(table))>>,
                      FALSE, <<"label statements sequentially">>) >>
        ELSE <<>>

\* labels[int(label)] = ln
Declare(table, L, l) == [k \in DOMAIN table \cup {L} |-> IF k = L THEN l ELSE table[k]]

ContinuationIssues(f, l, statement) ==
    LET c == Strip(ContinuationField(statement))
    IN  IF c # <<>> /\ c[1] \notin ContinuationChars
        THEN << Issue(f, l, <<ContinuationEnd>>, statement,
                      <<"continuation field contains", Plain("illegal character")>>, FALSE,
                      <<"use ! or * to denote a continuation statement">>) >>
        ELSE <<>>

\* [73 + column] for column, c in enumerate(sequence.strip())
SequenceCharColumn(column) == SequenceColumn + column

SequenceCharIssues(f, l, statement) ==
    LET at == Offending(Strip(SequenceField(statement)), AsciiDigits)
    IN  [k \in 1 .. Len(at) |->
            Issue(f, l, <<SequenceCharColumn(at[k] - 1)>>, statement,
                  <<"sequence field contains", Plain("illegal character")>>, FALSE,
                  <<"try removing">>)]

JustifyIssues(f, l, statement) ==
    IF SequenceField(statement) # <<>> /\ StartsWith(SequenceField(statement), " ")
    THEN << Issue(f, l, SequenceColumns, statement,
                  <<"consider left-justifying sequence field", Plain("")>>, FALSE, <<>>) >>
    ELSE <<>>

\* sequence and sequence.strip().isdigit()
SequenceIsNumeric(sequence) == sequence # <<>> /\ IsDigit(Strip(sequence))

\* Decreasing with < for <=.
DecreasingStrictly(S, cursor) == S < cursor

\* int(sequence.strip()) <= sequencing
Decreasing(S, cursor) == S <= cursor

OrderIssues(f, l, statement, cursor) ==
    IF Decreasing(PyInt(Strip(SequenceField(statement))), cursor)
    THEN << Issue(f, l, SequenceColumns, statement,
                  <<"decreasing sequence number", Plain("")>>, FALSE,
                  <<"number punchcards sequentially">>) >>
    ELSE <<>>

(***************************************************************************)
(* One iteration of `for ln, statement in enumerate(statements)': what it  *)
(* appends to issues, the label table and the sequence cursor it leaves,   *)
(* and whether it raised (a ValueError of int(), which nothing catches).   *)
(* When it raises, the record holds the state at the raise.                *)
(***************************************************************************)
ValidateLine(f, l, statement, table, cursor) ==
    LET general  == CharsetIssues(f, l, statement) \o LengthIssues(f, l, statement)
        label    == LabelField(statement)
        sequence == SequenceField(statement)
        labelled == LabelIsNumeric(label)
        atLabel  == general \o LabelCharIssues(f, l, statement)
        table2   == IF labelled /\ ~IntRaises(label)
                    THEN Declare(table, PyInt(label), l) ELSE table
        atSeq    == atLabel
                    \o (IF labelled THEN LabelIssues(f, l, statement, table) ELSE <<>>)
                    \o ContinuationIssues(f, l, statement)
                    \o SequenceCharIssues(f, l, statement)
                    \o JustifyIssues(f, l, statement)
    IN  IF IsComment(statement)
        THEN [issues |-> general, labels |-> table, sequencing |-> cursor,
              raised |-> FALSE]
        ELSE IF labelled /\ IntRaises(label)
        THEN [issues |-> atLabel, labels |-> table, sequencing |-> cursor,
              raised |-> TRUE]
        ELSE IF ~SequenceIsNumeric(sequence)
        THEN [issues |-> atSeq, labels |-> table2, sequencing |-> cursor,
              raised |-> FALSE]
        ELSE IF IntRaises(Strip(sequence))
        THEN [issues |-> atSeq, labels |-> table2, sequencing |-> cursor,
              raised |-> TRUE]
        ELSE [issues |-> atSeq \o OrderIssues(f, l, statement, cursor),
              labels |-> table2, sequencing |-> PyInt(sequence), raised |-> FALSE]

(***************************************************************************)
(* The program.                                                            *)
(***************************************************************************)

\* fh.read().strip().split("\n")
ReadStatements(t) == Split(Strip(t), "\n")

\* with open(fp, "r") as fh: statements = ...; issues = []; labels = {};
\* sequencing = -1
Read ==
    /\ pc = "read"
    /\ statements' = ReadStatements(text)
    /\ issues' = <<>>
    /\ labels' = <<>>
    /\ sequencing' = NoSequence
    /\ ln' = 0
    /\ pc' = "loop"
    /\ UNCHANGED <<fp, text, output>>

\* One iteration of the loop over the statements; ln is the number of the
\* line the iteration is given.
Validate ==
    /\ pc = "loop"
    /\ ln < Len(statements)
    /\ LET r == ValidateLine(fp, ln + 1, statements[ln + 1], labels, sequencing)
       IN  /\ issues' = issues \o r.issues
           /\ labels' = r.labels
           /\ sequencing' = r.sequencing
           /\ pc' = IF r.raised THEN "raised" ELSE "loop"
    /\ ln' = ln + 1
    /\ UNCHANGED <<fp, text, statements, output>>

\* After the loop: print "No suggestions!" or every issue, in order.
Report ==
    /\ pc = "loop"
    /\ ln = Len(statements)
    /\ output' = IF Len(issues) <= 0 THEN <<"No suggestions!">> ELSE issues
    /\ pc' = "done"
    /\ UNCHANGED <<fp, text, statements, ln, issues, labels, sequencing>>

Next == Read \/ Validate \/ Report

(***************************************************************************)
(* Source files the program is run on.  A file is its text: lines joined   *)
(* by "\n".  Each specification below runs the program on every file of at *)
(* most MaxLines lines drawn from one set of lines.                        *)
(***************************************************************************)

MaxLines == 3

Spaces(n) == [i \in 1 .. n |-> " "]

Pad(s, n) == s \o Spaces(n - Len(s))

\* An 80-column card of the four fields; the expression is padded to 66.
Card(label, continuation, expression, sequence) ==
    label \o continuation \o Pad(expression, ExpressionEnd - ContinuationEnd) \o sequence

RECURSIVE Join(_)
Join(lines) ==
    IF Len(lines) = 0 THEN <<>>
    ELSE IF Len(lines) = 1 THEN lines[1]
    ELSE lines[1] \o <<"\n">> \o Join(Tail(lines))

Files(lines) == UNION {[1 .. n -> lines] : n \in 1 .. MaxLines}

Blank5 == <<" ", " ", " ", " ", " ">>

XEq1 == <<"X", "=", "1">>

LabelLines ==
    { <<" ", " ", " ", "1", "0", " ">> \o XEq1,
      <<"1", "0", " ", " ", " ", " ">> \o XEq1,
      <<" ", " ", " ", " ", "5", " ">> \o XEq1,
      <<" ", " ", " ", "2", "0", " ">> \o XEq1,
      Blank5 \o <<" ">> \o XEq1,
      <<"1", " ", "2", " ", " ", " ">> \o XEq1,
      <<" ", " ", " ", " ", "U+FF11", " ">> \o XEq1,
      <<" ", " ", " ", " ", "U+00B2", " ">> \o XEq1,
      <<" ", " ", "A", "1", " ", " ">> \o XEq1,
      <<"C", " ", " ", "1", "0", " ">> \o XEq1 }

SequenceLines ==
    { Card(Blank5, <<" ">>, XEq1, <<"0", "0", "0", "0", "0", "0", "1", "0">>),
      Card(Blank5, <<"*">>, XEq1, <<"0", "0", "0", "0", "0", "0", "0", "5">>),
      Card(Blank5, <<" ">>, XEq1, <<" ", " ", "0", "0", "0", "0", "2", "0">>),
      Card(Blank5, <<"1">>, XEq1, <<" ", " ", "1", "2", "A", " ", " ", " ">>),
      Card(Blank5, <<" ">>, XEq1, <<"1", " ", "2">>),
      Card(Blank5, <<" ">>, XEq1, <<"U+FF11", "2">>),
      Card(Blank5, <<" ">>, XEq1, <<"U+00B2">>),
      Card(<<" ", " ", " ", " ", "U+00B2">>, <<" ">>, XEq1, <<"3", "0">>),
      Blank5 \o <<" ">> \o XEq1,
      Card(<<"C", " ", " ", "1", "0">>, <<"A">>, XEq1,
           <<" ", "0", "0", "0", "0", "0", "0", "1">>),
      Card(<<"C", "A", "B", "C", "D">>, <<" ">>, XEq1, <<"9", "X", "9">>) }

CharacterLines ==
    { CHARSET,
      Blank5 \o <<" ", "X", "=", "a">>,
      Blank5 \o <<"!", "X", "\t", "=", "?", "1">>,
      <<"C", " ", "a", "?", "b">>,
      <<>>,
      Card(Blank5, <<" ">>, XEq1, <<"0", "0", "0", "0", "0", "0", "1", "0">>)
          \o <<"E", "X", "T", "R", "A">>,
      Card(<<"C", " ", " ", " ", " ">>, <<" ">>, XEq1, <<"0", "0", "0", "0", "0", "0", "1", "0">>)
          \o <<"E", "x", "T", " ", " ">>,
      Card(<<" ", " ", " ", "1", "0">>, <<" ">>, XEq1, <<"0", "0", "0", "0", "0", "0", "1", "0">>)
          \o <<"0", "1", "2", "3", "4", "5", "6", "7", "8", "9">> }

FileLines ==
    { <<>>,
      Blank5 \o <<" ">> \o XEq1,
      <<" ", " ", " ", "1", "0", " ", "X", "=", "a">>,
      <<"1", "0", " ", " ", " ", " ">> \o XEq1,
      <<"C", " ", "X">> }

\* The state before the file is read.
Start(texts) ==
    /\ fp = "program.f"
    /\ text \in texts
    /\ statements = <<>>
    /\ ln = 0
    /\ issues = <<>>
    /\ labels = <<>>
    /\ sequencing = NoSequence
    /\ pc = "read"
    /\ output = <<>>

\* A file of lines, each ended by a line terminator.
Terminated(lines) == {Join(f) \o <<"\n">> : f \in Files(lines)}

InitLabels == Start(Terminated(LabelLines))

InitSequence == Start(Terminated(SequenceLines))

InitCharacters == Start(Terminated(CharacterLines))

\* Files whose last line is not blank, with and without a final terminator.
InitFile ==
    Start({Join(f) \o t : f \in {g \in Files(FileLines) : g[Len(g)] # <<>>},
                          t \in {<<>>, <<"\n">>}})

SpecLabels == InitLabels /\ [][Next]_vars

SpecSequence == InitSequence /\ [][Next]_vars

SpecCharacters == InitCharacters /\ [][Next]_vars

SpecFile == InitFile /\ [][Next]_vars

(***************************************************************************)
(* What the claims speak of, stated without the operators of the rules.    *)
(***************************************************************************)

\* The step that validates line ln + 1.
ValidateStep == pc = "loop" /\ ln' = ln + 1

\* The issues that step appends.
Added == SubSeq(issues', Len(issues) + 1, Len(issues'))

WithSummary(list, summaries) == SelectSeq(list, LAMBDA i : i.details[1] \in summaries)

\* The issues of line k with one of the summaries.
LineIssues(k, summaries) ==
    SelectSeq(issues, LAMBDA i : i.ln = k /\ i.details[1] \in summaries)

Columns(a, b) == [k \in 1 .. b - a + 1 |-> a + k - 1]

\* The 47 permitted characters: digits, space, uppercase letters and
\* = - + . ) $ * / , (
Alphabet47 ==
    AsciiDigits \cup {" "}
    \cup {"A", "B", "C", "D", "E", "F", "G", "H", "I", "J", "K", "L", "M",
          "N", "O", "P", "Q", "R", "S", "T", "U", "V", "W", "X", "Y", "Z"}
    \cup {"=", "-", "+", ".", ")", "$", "*", "/", ",", "("}

\* A field that, trimmed, is a non-empty run of the digits 0-9.
WellFormedNumber(field) ==
    Strip(field) # <<>> /\ \A i \in DOMAIN Strip(field) : Strip(field)[i] \in AsciiDigits

\* Line k is no comment and declares the numeric label L.
DeclaresLabel(k, L) ==
    /\ ~StartsWith(statements[k], "C")
    /\ WellFormedNumber(SubSeq(statements[k], 1, Min(5, Len(statements[k]))))
    /\ DecimalValue(Strip(SubSeq(statements[k], 1, Min(5, Len(statements[k]))))) = L

\* The first of the lines validated so far that declares L.
FirstDeclaration(L) ==
    CHOOSE k \in 1 .. ln : DeclaresLabel(k, L) /\ \A j \in 1 .. k - 1 : ~DeclaresLabel(j, L)

\* C1: a label already in the table yields a "duplicate label" Error on
\* columns 1-5 that names the line of the FIRST declaration, and leaves the
\* table as it was: the entry of every label stays its first declaring line.
C1_DuplicateNamesFirstDeclaration ==
    /\ \A L \in DOMAIN labels :
          (\E k \in 1 .. ln : DeclaresLabel(k, L)) => labels[L] = FirstDeclaration(L)
    /\ \A i \in DOMAIN issues :
          (issues[i].details[1] = "duplicate label"
             /\ WellFormedNumber(SubSeq(issues[i].statement, 1, 5)))
          => /\ issues[i].cols = Columns(1, 5)
             /\ issues[i].dangerous
             /\ issues[i].details[2][2] =
                   FirstDeclaration(DecimalValue(Strip(SubSeq(issues[i].statement, 1, 5))))

\* C2: a numeric label L not yet in the table is inserted with the current
\* line; exactly one "badly ordered labels" Warning on columns 1-5, naming
\* the previous maximum, is emitted when the table is non-empty and L is
\* below its maximum, and no label-semantics diagnostic otherwise.  The
\* maximum key never decreases.
C2_NewLabelStep ==
    ValidateStep =>
      LET st    == statements[ln + 1]
          label == LabelField(st)
          L     == PyInt(label)
          sem   == WithSummary(Added, {"duplicate label", "badly ordered labels"})
          below == \E k \in DOMAIN labels : L < k
          top   == CHOOSE k \in DOMAIN labels : \A j \in DOMAIN labels : j <= k
      IN  /\ (~StartsWith(st, "C") /\ LabelIsNumeric(label) /\ ~IntRaises(label)
                /\ L \notin DOMAIN labels)
             => /\ DOMAIN labels' = DOMAIN labels \cup {L}
                /\ labels'[L] = ln + 1
                /\ \A k \in DOMAIN labels : labels'[k] = labels[k]
                /\ below => sem = << [fp |-> fp, ln |-> ln + 1, cols |-> Columns(1, 5),
                                      statement |-> st,
                                      details |-> <<"badly ordered labels",
                                                    <<"previous was {}", top>> >>,
                                      dangerous |-> FALSE,
                                      suggestions |-> <<"label statements sequentially">>] >>
                /\ ~below => sem = <<>>
          /\ \A k \in DOMAIN labels : \E j \in DOMAIN labels' : k <= j

\* C2: every step of the program inserts a new numeric label with its line,
\* warns "badly ordered labels" exactly when it is below the maximum, and
\* never lowers the maximum key.
C2_NewLabel == [][C2_NewLabelStep]_vars

\* C2's case: a label below the maximum was warned about and inserted with
\* its line, and a later label above the maximum was inserted without warning.
C2_Witness ==
    /\ Len(WithSummary(issues, {"badly ordered labels"})) = 1
    /\ \E i \in DOMAIN issues :
          /\ issues[i].details[1] = "badly ordered labels"
          /\ \E L \in DOMAIN labels : labels[L] = issues[i].ln /\ L < MaxKey(labels)
          /\ labels[MaxKey(labels)] > issues[i].ln

\* The sequence cursor the validated lines leave: the value of the sequence
\* field of the last of the lines 1..k that is no comment and has a numeric
\* sequence field, -1 if there is none.
LastSequence(k) ==
    LET numbered == {j \in 1 .. k :
                        /\ ~StartsWith(statements[j], "C")
                        /\ Len(statements[j]) > 72
                        /\ IsDigit(Strip(SubSeq(statements[j], 73, Min(80, Len(statements[j])))))}
    IN  IF numbered = {} THEN -1
        ELSE LET j == CHOOSE m \in numbered : \A n \in numbered : n <= m
             IN  DecimalValue(Strip(SubSeq(statements[j], 73, Min(80, Len(statements[j])))))

\* C3: on a line whose sequence field is numeric with value S, a
\* "decreasing sequence number" Warning on columns 73-80 is emitted iff S is
\* at most the cursor, which is the value of the most recent earlier numeric
\* sequence field or -1; afterwards the cursor is S.  (The step is one in
\* which the sequence rule is applied: int() raised neither on the label nor
\* on the sequence field.)
C3_SequenceStep ==
    (ValidateStep /\ pc' # "raised") =>
      LET st  == statements[ln + 1]
          seq == SequenceField(st)
          S   == PyInt(seq)
          dec == WithSummary(Added, {"decreasing sequence number"})
      IN  (~StartsWith(st, "C") /\ SequenceIsNumeric(seq))
          => /\ sequencing = LastSequence(ln)
             /\ S <= sequencing
                  => dec = << [fp |-> fp, ln |-> ln + 1, cols |-> Columns(73, 80),
                               statement |-> st,
                               details |-> <<"decreasing sequence number", <<"">> >>,
                               dangerous |-> FALSE,
                               suggestions |-> <<"number punchcards sequentially">>] >>
             /\ S > sequencing => dec = <<>>
             /\ sequencing' = S

C4_CharsetRule ==
    \A k \in 1 .. ln :
       /\ \A p \in 1 .. Len(statements[k]) :
             Cardinality({i \in DOMAIN issues :
                             /\ issues[i].ln = k
                             /\ issues[i].details = <<"statement contains", <<"illegal character">> >>
                             /\ issues[i].cols = <<p>>})
               = IF statements[k][p] \in Alphabet47 THEN 0 ELSE 1
       /\ \A i \in DOMAIN issues :
             (issues[i].ln = k /\ issues[i].details[1] = "statement contains")
             => /\ issues[i].dangerous
                /\ issues[i].statement = statements[k]
                /\ Len(issues[i].cols) = 1
                /\ issues[i].cols[1] \in 1 .. Len(statements[k])

\* C4's case: a comment and a statement, each with permitted and illegal
\* characters, have been validated and the run is over.
C4_Witness ==
    /\ pc = "done"
    /\ \E k \in 1 .. ln :
          /\ StartsWith(statements[k], "C")
          /\ Len(statements[k]) > Len(LineIssues(k, {"statement contains"}))
          /\ Len(LineIssues(k, {"statement contains"})) = 3
    /\ \E k \in 1 .. ln :
          /\ ~StartsWith(statements[k], "C")
          /\ Len(statements[k]) > Len(LineIssues(k, {"statement contains"}))
          /\ Len(LineIssues(k, {"statement contains"})) = 3

\* The length of a line with its trailing whitespace removed.
TrimmedLength(s) ==
    LET keep == {i \in DOMAIN s : s[i] \notin PyWhitespace}
    IN  IF keep = {} THEN 0 ELSE CHOOSE i \in keep : \A j \in keep : j <= i

\* C5: with n the length of a line after trimming trailing whitespace only,
\* exactly one Warning "statement exceeds 80 column limit" with columns
\* 81..n is emitted if n > 80, and none if n <= 80.
C5_LengthRule ==
    \A k \in 1 .. ln :
       LET n == TrimmedLength(statements[k])
       IN  LineIssues(k, {"statement exceeds 80 column limit"})
             = IF n > 80
               THEN << [fp |-> fp, ln |-> k, cols |-> Columns(81, n),
                        statement |-> statements[k],
                        details |-> <<"statement exceeds 80 column limit", <<"">> >>,
                        dangerous |-> FALSE,
                        suggestions |-> <<"break statement across multiple lines using continuation field">>] >>
               ELSE <<>>

\* C6: validation of any input raises no exception: every line is processed.
C6_NeverRaises == pc # "raised" /\ (pc = "done" => ln = Len(statements))

LabelSummaries == {"label field contains", "duplicate label", "badly ordered labels"}

SequenceSummaries ==
    {"sequence field contains", "consider left-justifying sequence field",
     "decreasing sequence number"}

\* C7: a non-blank label field that is no well-formed number leaves the label
\* table as it was and is reported by a label diagnostic; a non-blank
\* sequence field that is no well-formed number leaves the cursor as it was
\* and is reported by a sequence-field diagnostic.
C7_MalformedStep ==
    (ValidateStep /\ ~StartsWith(statements[ln + 1], "C")) =>
      LET st    == statements[ln + 1]
          label == SubSeq(st, 1, Min(5, Len(st)))
          seq   == SubSeq(st, 73, Min(80, Len(st)))
      IN  /\ (Strip(label) # <<>> /\ ~WellFormedNumber(label))
             => /\ labels' = labels
                /\ WithSummary(Added, LabelSummaries) # <<>>
          /\ (Strip(seq) # <<>> /\ ~WellFormedNumber(seq))
             => /\ sequencing' = sequencing
                /\ WithSummary(Added, SequenceSummaries) # <<>>

\* C7: no step changes the label table or the sequence cursor on a malformed
\* label or sequence field, and every such field is reported.
C7_MalformedFieldsLeaveState == [][C7_MalformedStep]_vars

\* C8: a line that starts with the comment marker C yields only charset and
\* line-length diagnostics, and leaves the label table and the sequence
\* cursor as they were.
C8_CommentStep ==
    (ValidateStep /\ StartsWith(statements[ln + 1], "C")) =>
       /\ \A i \in DOMAIN Added :
             Added[i].details[1] \in {"statement contains", "statement exceeds 80 column limit"}
       /\ labels' = labels
       /\ sequencing' = sequencing
       /\ pc' = "loop"

\* C8: every step on a comment line appends only charset and line-length
\* diagnostics and leaves the label table and the sequence cursor unchanged.
C8_Comment == [][C8_CommentStep]_vars

\* C8's case: after a statement that set a label and the cursor, a comment
\* line of more than 80 columns with a numeric sequence field was validated.
C8_Witness ==
    /\ pc = "loop"
    /\ ln >= 2
    /\ StartsWith(statements[ln], "C")
    /\ Len(statements[ln]) > 80
    /\ WellFormedNumber(SubSeq(statements[ln], 73, 80))
    /\ DOMAIN labels # {}
    /\ sequencing = 10
    /\ Len(LineIssues(ln, {"statement contains"})) = 1
    /\ Len(LineIssues(ln, {"statement exceeds 80 column limit"})) = 1

\* The columns of the trimmed sequence field of line k that hold no digit.
BadSequenceColumns(k) ==
    LET st   == statements[k]
        keep == {p \in 73 .. Min(80, Len(st)) : st[p] \notin PyWhitespace}
    IN  {p \in 73 .. Min(80, Len(st)) :
            /\ st[p] \notin AsciiDigits
            /\ \E a \in keep : a <= p
            /\ \E b \in keep : p <= b}

\* C9: each non-digit character of the trimmed sequence field of a
\* non-comment line yields exactly one Warning "sequence field contains
\* illegal character" whose single column is the column at which the
\* character stands in the line.
C9_SequenceCharColumns ==
    \A k \in 1 .. ln :
       ~StartsWith(statements[k], "C") =>
          \A p \in BadSequenceColumns(k) :
             Cardinality({i \in DOMAIN issues :
                             /\ issues[i].ln = k
                             /\ issues[i].details[1] = "sequence field contains"
                             /\ issues[i].cols = <<p>>}) = 1

\* The lines of a text: the pieces between line terminators; the piece after
\* a final terminator is no line.
RawLines(t) ==
    IF t # <<>> /\ t[Len(t)] = "\n" THEN Split(SubSeq(t, 1, Len(t) - 1), "\n")
    ELSE Split(t, "\n")

\* C10: the lines validated are the raw lines of the file, in order, and
\* every diagnostic's line number is the position in the file of the line it
\* quotes.
C10_ExactCoordinates ==
    pc # "read" =>
       /\ statements = RawLines(text)
       /\ \A i \in DOMAIN issues :
             /\ issues[i].ln \in 1 .. Len(RawLines(text))
             /\ issues[i].statement = RawLines(text)[issues[i].ln]

====
